---- MODULE Spec2Model ----
(***************************************************************************)
(* NeuroVoice AI: the Flask backend (app.py) and the artifact it loads     *)
(* (train_model.py).                                                       *)
(*                                                                         *)
(* Numbers.  The program computes in floating point.  The model uses       *)
(* integers in fixed units: feature values and training statistics are     *)
(* integers, the statistics are even so that 0.5 * min and 1.5 * max are   *)
(* exact; jitter and shimmer are in units of 1e-4 (0.005 is 50, 0.02 is    *)
(* 200); probabilities are in percent (0.6 is 60).                         *)
(***************************************************************************)
EXTENDS Integers, Sequences, FiniteSets, TLC

VARIABLES
    model,            \* app.py global: the classifier, or None
    scaler,           \* app.py global: the fitted scaler, or None
    feature_columns,  \* app.py global: ordered list of column names
    feature_stats,    \* app.py global: the statistics table (a dict)
    clock,            \* datetime.now(), in whole seconds
    files,            \* the uploads folder: file name -> content
    req,              \* per request: position in analyze() and its locals
    health_resp,      \* the last answer of /health
    call,             \* a function called on its own: its name and arguments
    ret               \* what that call returned

vars == << model, scaler, feature_columns, feature_stats, clock, files, req,
           health_resp, call, ret >>

shared == << model, scaler, feature_columns, feature_stats >>

----------------------------------------------------------------------------
(* Bounds of the model *)

MaxStat == 2       \* training min/max range over the even numbers -2*MaxStat .. 2*MaxStat

MaxVal == 7        \* feature values range over -MaxVal .. MaxVal

----------------------------------------------------------------------------
(* Python values *)

None == [tag |-> "None"]

EmptyDict == << >>

Keys(d) == DOMAIN d

Min2(a, b) == IF a <= b THEN a ELSE b

Max2(a, b) == IF a >= b THEN a ELSE b

Abs(x) == IF x < 0 THEN -x ELSE x

\* np.clip(v, lo, hi) is np.minimum(np.maximum(v, lo), hi), also when lo > hi
np_clip(v, lo, hi) == Min2(Max2(v, lo), hi)

\* x * 0.5 and x * 1.5, exact on the even numbers the statistics are drawn from
Half(x) == x \div 2

OneAndAHalf(x) == (3 * x) \div 2

\* the ten feature names, in the order of train_model.py and of the default list
DefaultColumns ==
    << "jitter", "shimmer", "hnr", "mfcc_mean", "mfcc_std", "pitch_mean",
       "pitch_std", "energy_mean", "spectral_centroid", "zero_crossing_rate" >>

Range(s) == { s[i] : i \in DOMAIN s }

FeatureNames == Range(DefaultColumns)

----------------------------------------------------------------------------
(* validate_features *)

min_val(stats, feat_name) == Half(stats["mins"][feat_name])

max_val(stats, feat_name) == OneAndAHalf(stats["maxs"][feat_name])

\* `if feature_stats and 'mins' in feature_stats and 'maxs' in feature_stats`
HasRanges(stats) ==
    /\ Keys(stats) # {}
    /\ "mins" \in Keys(stats)
    /\ "maxs" \in Keys(stats)

\* the clipping drops the copy: the loop writes into the caller's dict
validate_features_in_place(features, stats) ==
    LET out == [ f \in Keys(features) |->
                   IF HasRanges(stats) /\ f \in Keys(stats["mins"])
                      /\ (features[f] < min_val(stats, f) \/ features[f] > max_val(stats, f))
                   THEN np_clip(features[f], min_val(stats, f), max_val(stats, f))
                   ELSE features[f] ]
    IN  [ validated |-> out, features |-> out ]

\* the result, and the caller's dict as the call leaves it
validate_features(features, stats) ==
    LET Out(f) ==
            IF HasRanges(stats) /\ f \in Keys(stats["mins"])
            THEN IF features[f] < min_val(stats, f) \/ features[f] > max_val(stats, f)
                 THEN np_clip(features[f], min_val(stats, f), max_val(stats, f))
                 ELSE features[f]
            ELSE features[f]
    IN  [ validated |-> [ f \in Keys(features) |-> Out(f) ],
          features  |-> features ]

----------------------------------------------------------------------------
(* extract_features *)

MaxSamples == 5    \* an audio file holds 0 .. MaxSamples samples

MaxFrameLength == 2048

JitterDefault == 50        \* 0.005

ShimmerDefault == 200      \* 0.02

PitchMeanDefault == 150

PitchStdDefault == 40

RECURSIVE SumSeq(_)
SumSeq(s) == IF s = << >> THEN 0 ELSE Head(s) + SumSeq(Tail(s))

\* np.abs(np.diff(s))
AbsDiffs(s) == [ i \in 1 .. (Len(s) - 1) |-> Abs(s[i + 1] - s[i]) ]

\* floor of the square root
Isqrt(x) == CHOOSE r \in 0 .. x : r * r <= x /\ (r + 1) * (r + 1) > x

\* lines 57-58: a trim that leaves less than half a second is discarded
y_trimmed_len(audio) ==
    IF 2 * audio.n_trimmed < audio.sr THEN audio.n ELSE audio.n_trimmed

frame_length(audio) == Min2(MaxFrameLength, y_trimmed_len(audio))

hop_length(audio) == frame_length(audio) \div 4

\* librosa frames the centred signal: one frame every hop_length samples
NumFrames(len, hop) == 1 + (len \div hop)

\* lines 62-67: the frames in which piptrack found a pitch
pitch_values(audio) == SelectSeq(audio.pitches, LAMBDA p : p > 0)

\* periods in microseconds, 1.0 / (pitch + 1e-10)
pitch_periods(audio) ==
    [ i \in 1 .. Len(pitch_values(audio)) |-> 1000000 \div pitch_values(audio)[i] ]

pitch_mean(audio) ==
    IF Len(pitch_values(audio)) > 0
    THEN SumSeq(pitch_values(audio)) \div Len(pitch_values(audio))
    ELSE PitchMeanDefault

pitch_std(audio) ==
    LET pv == pitch_values(audio)
        k  == Len(pv)
        sq == [ i \in 1 .. k |-> pv[i] * pv[i] ]
    IN  IF k > 0
        THEN Isqrt(k * SumSeq(sq) - SumSeq(pv) * SumSeq(pv)) \div k
        ELSE PitchStdDefault

\* lines 68-80, in units of 1e-4
jitter(audio) ==
    LET pp == pitch_periods(audio)
        k  == Len(pp)
    IN  IF Len(pitch_values(audio)) > 0
        THEN IF k > 1
             THEN IF SumSeq(pp) > 0
                  THEN (SumSeq(AbsDiffs(pp)) * k * 10000) \div ((k - 1) * SumSeq(pp))
                  ELSE JitterDefault
             ELSE JitterDefault
        ELSE JitterDefault

\* lines 81-86, in units of 1e-4: mean(diffs) / (mean(rms) + 1e-10); with a zero
\* mean every difference is zero and the quotient is 0 / 1e-10 = 0
shimmer(audio) ==
    LET rms == audio.rms
        m   == Len(rms)
    IN  IF m > 1
        THEN IF SumSeq(rms) = 0
             THEN 0
             ELSE (SumSeq(AbsDiffs(rms)) * m * 10000) \div ((m - 1) * SumSeq(rms))
        ELSE ShimmerDefault

energy_mean(audio) == SumSeq(audio.rms) \div Len(audio.rms)

Failure(msg) == [ ok |-> FALSE, error |-> msg ]

\* lines 50-114: the feature dict, or the exception that leaves the function
extract_features(audio) ==
    IF ~audio.decodable THEN Failure("decode")
    ELSE IF audio.n = 0 THEN Failure("Audio file is empty")
    ELSE IF hop_length(audio) = 0 THEN Failure("hop_length")
    ELSE [ ok |-> TRUE,
           features |->
             [ f \in FeatureNames |->
                 CASE f = "jitter"      -> jitter(audio)
                   [] f = "shimmer"     -> shimmer(audio)
                   [] f = "pitch_mean"  -> pitch_mean(audio)
                   [] f = "pitch_std"   -> pitch_std(audio)
                   [] f = "energy_mean" -> energy_mean(audio)
                   [] OTHER             -> audio.spectral[f] ] ]

----------------------------------------------------------------------------
(* predict_parkinsons *)

ReviewThreshold == 60      \* 0.6, in percent

TopN == 5

\* sorted(..., key=importance) followed by a reversal: equal keys end up reversed
RECURSIVE InsertAscending(_, _, _)
InsertAscending(sorted, i, key) ==
    IF sorted = << >> THEN << i >>
    ELSE IF key[Head(sorted)] <= key[i]
         THEN << Head(sorted) >> \o InsertAscending(Tail(sorted), i, key)
         ELSE << i >> \o sorted

RECURSIVE SortAscending(_, _)
SortAscending(n, key) ==
    IF n = 0 THEN << >> ELSE InsertAscending(SortAscending(n - 1, key), n, key)

Reverse(s) == [ i \in 1 .. Len(s) |-> s[Len(s) + 1 - i] ]

sorted_ascending_reversed(n, key) == Reverse(SortAscending(n, key))

\* a stable insertion: i goes behind every entry whose key is at least its own
RECURSIVE InsertDescending(_, _, _)
InsertDescending(sorted, i, key) ==
    IF sorted = << >> THEN << i >>
    ELSE IF key[Head(sorted)] >= key[i]
         THEN << Head(sorted) >> \o InsertDescending(Tail(sorted), i, key)
         ELSE << i >> \o sorted

RECURSIVE SortDescending(_, _)
SortDescending(n, key) ==
    IF n = 0 THEN << >> ELSE InsertDescending(SortDescending(n - 1, key), n, key)

\* sorted(zip(...), key=lambda x: x[1], reverse=True): the positions 1 .. n of the
\* zipped list by key descending; Python's sort is stable, also with reverse=True
sorted_reverse(n, key) == SortDescending(n, key)

Prefix(s, k) == SubSeq(s, 1, Min2(k, Len(s)))

\* confidence is read from the other class
confidence_of_other(prediction, probability) == probability[2 - prediction]

\* line 136: probability[prediction], the classes being 0 and 1
confidence_of(prediction, probability) == probability[prediction + 1]

\* lines 137, 155
needs_review_of(confidence) == confidence < ReviewThreshold

\* lines 128-156.  The result, or the exception; `features` is the caller's dict
\* as the call leaves it.  The classifier is a loaded object: model.predict and
\* model.predict_proba are what it answers for the scaled row.
predict_parkinsons(features) ==
    IF model = None \/ scaler = None
    THEN [ ok |-> FALSE, error |-> "Model not loaded", features |-> features ]
    ELSE LET v == validate_features(features, feature_stats)
             validated_features == v.validated
         IN  IF \E i \in DOMAIN feature_columns :
                    feature_columns[i] \notin Keys(validated_features)
             THEN [ ok |-> FALSE, error |-> "KeyError", features |-> v.features ]
             ELSE LET feature_importance == model.feature_importances_
                      feature_values ==
                          [ i \in DOMAIN feature_columns |->
                              validated_features[feature_columns[i]] ]
                      n == Min2(Len(feature_columns), Len(feature_importance))
                      top == Prefix(sorted_reverse(n, feature_importance), TopN)
                      prediction == model.predict
                      probability == model.predict_proba
                      confidence == confidence_of(prediction, probability)
                  IN  [ ok |-> TRUE,
                        features |-> v.features,
                        result |->
                          [ prediction |-> prediction,
                            confidence |-> confidence,
                            probability_healthy |-> probability[1],
                            probability_parkinsons |-> probability[2],
                            top_features |->
                              [ k \in DOMAIN top |->
                                  [ name |-> feature_columns[top[k]],
                                    importance |-> feature_importance[top[k]],
                                    value |-> feature_values[top[k]] ] ],
                            needs_review |-> needs_review_of(confidence) ] ]

----------------------------------------------------------------------------
(* The values the functions are applied to *)

MaxImp == 1        \* feature importances range over 0 .. MaxImp

Evens(k) == { 2 * i : i \in (-k) .. k }

Values == (-MaxVal) .. MaxVal

\* a feature dict as extract_features builds it: the ten keys, one value singled out
Vec(k, v) == [ f \in FeatureNames |-> IF f = k THEN v ELSE 0 ]

\* a statistics table as train_model.py lines 101-106 builds it (the mins and maxs
\* of the same columns, min <= max), over the key set K; feature k has the range
\* m .. M and every other feature the range 0 .. 2 * MaxStat
StatsTable(K, k, m, M) ==
    [ mins |-> [ f \in K |-> IF f = k THEN m ELSE 0 ],
      maxs |-> [ f \in K |-> IF f = k THEN M ELSE 2 * MaxStat ] ]

MinMaxPairs == { p \in Evens(MaxStat) \X Evens(MaxStat) : p[1] <= p[2] }

KeySets == { FeatureNames, FeatureNames \ { "hnr" } }

\* a table without ranges: the empty dict, or one that holds no mins and maxs
NoRanges == { EmptyDict, [ means |-> [ f \in FeatureNames |-> 0 ] ] }

ValidateCalls ==
    { [ fn |-> "validate_features", features |-> Vec(k, v), stats |-> t ] :
        k \in FeatureNames, v \in Values, t \in NoRanges } \cup
    { [ fn |-> "validate_features", features |-> Vec(k, v),
        stats |-> StatsTable(K, k, p[1], p[2]) ] :
        k \in FeatureNames, v \in Values, K \in KeySets, p \in MinMaxPairs }

\* what model.predict_proba can answer, in percent
Probabilities == { << p, 100 - p >> : p \in 0 .. 100 }

Classes == { 0, 1 }

NoRequest == [ pc |-> "idle" ]

NumRequests == 2   \* analysis requests in flight

MaxClock == 1      \* the clock runs over the seconds 0 .. MaxClock

Requests == 1 .. NumRequests

ServerIdle ==
    /\ clock = 0
    /\ files = EmptyDict
    /\ req = [ r \in Requests |-> NoRequest ]
    /\ health_resp = None

NoArtifact ==
    /\ model = None
    /\ scaler = None
    /\ feature_columns = << >>
    /\ feature_stats = EmptyDict

server == << clock, files, req, health_resp >>

----------------------------------------------------------------------------
(* validate_features applied to every dict and table of the bounds *)

InitValidate ==
    /\ NoArtifact
    /\ ServerIdle
    /\ call \in ValidateCalls
    /\ ret = None

call_validate_features ==
    /\ call.fn = "validate_features"
    /\ ret = None
    /\ ret' = validate_features(call.features, call.stats)
    /\ UNCHANGED << shared, server, call >>

NextValidate == call_validate_features

SpecValidate == InitValidate /\ [][NextValidate]_vars

----------------------------------------------------------------------------
(* extract_features applied to every audio file of the bounds *)

SampleRates == { 2, 8 }

Pitches == { 100, 200 }

Energies == { 0, 1, 2 }

Spectral(x) ==
    [ f \in { "hnr", "mfcc_mean", "mfcc_std", "spectral_centroid",
              "zero_crossing_rate" } |-> IF f = "mfcc_mean" THEN -x ELSE x ]

\* what librosa makes of a file of n samples at rate sr that trims to n_trimmed:
\* no pitch in the first `unvoiced` frames, then p1 and p2 in turn; the frame
\* energies e1 and e2 in turn
Audio(n, sr, n_trimmed, unvoiced, p1, p2, e1, e2) ==
    LET a0  == [ n |-> n, sr |-> sr, n_trimmed |-> n_trimmed ]
        len == y_trimmed_len(a0)
        hop == Min2(MaxFrameLength, len) \div 4
        nf  == IF hop = 0 THEN 0 ELSE NumFrames(len, hop)
    IN  [ decodable |-> TRUE, silent |-> (e1 = 0 /\ e2 = 0),
          n |-> n, sr |-> sr, n_trimmed |-> n_trimmed,
          pitches |-> [ i \in 1 .. nf |->
                          IF i <= Min2(unvoiced, nf) THEN 0
                          ELSE IF i % 2 = 1 THEN p1 ELSE p2 ],
          rms |-> [ i \in 1 .. nf |-> IF i % 2 = 1 THEN e1 ELSE e2 ],
          spectral |-> Spectral(2) ]

\* all samples are zero
Silent(audio) == audio.silent

Undecodable ==
    [ decodable |-> FALSE, silent |-> FALSE, n |-> 0, sr |-> 0, n_trimmed |-> 0, pitches |-> << >>,
      rms |-> << >>, spectral |-> Spectral(0) ]

EmptyAudio ==
    [ decodable |-> TRUE, silent |-> FALSE, n |-> 0, sr |-> 8, n_trimmed |-> 0, pitches |-> << >>,
      rms |-> << >>, spectral |-> Spectral(0) ]

\* all-zero samples: nothing is trimmed, no frame has a pitch or any energy
SilentAudio(n, sr) == Audio(n, sr, n, n + 1, 100, 100, 0, 0)

\* the shortest signal whose hop_length, frame_length // 4, is not zero
MinFramed == 4

VoicedAudios ==
    { Audio(n, sr, nt, u, p1, p2, e1, e2) :
        n \in 1 .. MaxSamples, sr \in SampleRates, nt \in 1 .. MaxSamples,
        u \in 0 .. (MaxSamples + 1), p1 \in Pitches, p2 \in Pitches,
        e1 \in Energies \ { 0 }, e2 \in Energies }

Audios ==
    { Undecodable, EmptyAudio } \cup
    { SilentAudio(n, sr) : n \in MinFramed .. MaxSamples, sr \in SampleRates } \cup
    { a \in VoicedAudios : a.n_trimmed <= a.n }

InitExtract ==
    /\ NoArtifact
    /\ ServerIdle
    /\ call \in [ fn : { "extract_features" }, audio : Audios ]
    /\ ret = None

call_extract_features ==
    /\ call.fn = "extract_features"
    /\ ret = None
    /\ ret' = extract_features(call.audio)
    /\ UNCHANGED << shared, server, call >>

NextExtract == call_extract_features

SpecExtract == InitExtract /\ [][NextExtract]_vars

----------------------------------------------------------------------------
(* predict_parkinsons applied with the artifact of train_model.py loaded *)

\* a RandomForestClassifier as far as app.py reads it: its importances, and the
\* class and the class probabilities (in percent) it answers
Forest(importances, class, proba) ==
    [ feature_importances_ |-> importances, predict |-> class, predict_proba |-> proba ]

FittedScaler == [ fitted |-> TRUE ]

Importances == [ 1 .. Len(DefaultColumns) -> 0 .. MaxImp ]

Ramp == [ i \in 1 .. Len(DefaultColumns) |-> i % 2 ]

\* the table of a training run: hnr within 2 .. 4, mfcc_mean within -8 .. -2
TrainedStats ==
    [ mins |-> [ f \in FeatureNames |->
                   CASE f = "hnr" -> 2 [] f = "mfcc_mean" -> -8 [] OTHER -> 0 ],
      maxs |-> [ f \in FeatureNames |->
                   CASE f = "hnr" -> 4 [] f = "mfcc_mean" -> -2 [] OTHER -> 4 ] ]

\* every importance vector, for a feature dict that is clipped and one that is not
InitRank ==
    /\ model \in { Forest(imp, 1, << 45, 55 >>) : imp \in Importances }
    /\ call \in [ fn : { "predict_parkinsons" },
                  features : { Vec("hnr", 3), Vec("jitter", MaxVal) } ]

\* every answer of the classifier, for one importance vector
InitConfidence ==
    /\ model \in { Forest(Ramp, c, pr) : c \in Classes, pr \in Probabilities }
    /\ call \in [ fn : { "predict_parkinsons" }, features : { Vec("hnr", 3) } ]

InitPredict ==
    /\ scaler = FittedScaler
    /\ feature_columns = DefaultColumns
    /\ feature_stats = TrainedStats
    /\ ServerIdle
    /\ ret = None
    /\ (InitRank \/ InitConfidence)

call_predict_parkinsons ==
    /\ call.fn = "predict_parkinsons"
    /\ ret = None
    /\ ret' = predict_parkinsons(call.features)
    /\ UNCHANGED << shared, server, call >>

NextPredict == call_predict_parkinsons

SpecPredict == InitPredict /\ [][NextPredict]_vars

----------------------------------------------------------------------------
(* The server: module-level loading, /analyze, /download, /health *)

\* dict assignment d[k] = v
Put(d, k, v) == [ x \in (DOMAIN d) \cup { k } |-> IF x = k THEN v ELSE d[x] ]

\* lines 258-259: uploads/<%Y%m%d_%H%M%S>_<file.filename>
upload_path(now, filename) == [ kind |-> "upload", timestamp |-> now, name |-> filename ]

\* lines 233-235: uploads/neurovoice_report_<%Y%m%d_%H%M%S>.pdf
report_path(now) == [ kind |-> "report", timestamp |-> now, name |-> "" ]

\* lines 159-232: what the report shows of the request
report_content(user_data, prediction_result) ==
    [ name |-> user_data.name,
      prediction |-> prediction_result.prediction,
      confidence |-> prediction_result.confidence,
      top_values |-> [ k \in DOMAIN prediction_result.top_features |->
                         prediction_result.top_features[k].value ] ]

\* the handler also returns what the request had computed when it failed
error_response_with_locals(locals, status, msg) ==
    [ status |-> status,
      body |-> IF "features" \in DOMAIN locals
               THEN [ error |-> msg, features |-> locals.features ]
               ELSE [ error |-> msg ] ]

\* lines 247, 249, 252, 276-278: jsonify({'error': ...}), status
error_response(locals, status, msg) == [ status |-> status, body |-> [ error |-> msg ] ]

\* lines 264-275
success_response(user_data, features, prediction_result, pdf_path) ==
    [ status |-> 200,
      body |-> [ success |-> TRUE,
                 prediction |-> prediction_result.prediction,
                 confidence |-> prediction_result.confidence,
                 probability_healthy |-> prediction_result.probability_healthy,
                 probability_parkinsons |-> prediction_result.probability_parkinsons,
                 features |-> features,
                 top_features |-> prediction_result.top_features,
                 pdf_filename |-> pdf_path,
                 user_data |-> user_data ] ]

Done(response) == [ pc |-> "done", response |-> response ]

\* the columns of a bundle whose feature list does not match the extractor's
MismatchedColumns == Append(DefaultColumns, "ppe")

\* lines 31-45: the bundle as pickled by train_model.py; no file; a bundle that
\* lacks the scaler; a bundle whose columns are not the extractor's
InitLoad ==
    \/ /\ model \in { Forest(Ramp, c, << 30, 70 >>) : c \in Classes }
       /\ scaler = FittedScaler
       /\ feature_columns = DefaultColumns
       /\ feature_stats = TrainedStats
    \/ NoArtifact
    \/ /\ model = Forest(Ramp, 1, << 30, 70 >>)
       /\ scaler = None
       /\ feature_columns = DefaultColumns
       /\ feature_stats = TrainedStats
    \/ /\ model = Forest(Ramp, 1, << 30, 70 >>)
       /\ scaler = FittedScaler
       /\ feature_columns = MismatchedColumns
       /\ feature_stats = TrainedStats

Init ==
    /\ InitLoad
    /\ ServerIdle
    /\ call = None
    /\ ret = None

\* the uploads clients send: an empty file, a voice
UploadedAudios == { EmptyAudio, Audio(MinFramed, 8, MinFramed, 0, 100, 200, 1, 2) }

\* lines 245-260: the checks, the form and the saved upload.  Requests are numbered
\* in the order they arrive, and request r carries the name of its own client.
analyze_begin(r) ==
    /\ req[r].pc = "idle"
    /\ \A earlier \in 1 .. (r - 1) : req[earlier].pc # "idle"
    /\ \E has_audio \in BOOLEAN, filename \in { "", "voice.wav" },
          audio \in UploadedAudios :
         IF model = None
         THEN /\ req' = [ req EXCEPT ![r] =
                    Done(error_response(req[r], 500, "Model not loaded")) ]
              /\ UNCHANGED files
         ELSE IF ~has_audio
         THEN /\ req' = [ req EXCEPT ![r] =
                    Done(error_response(req[r], 400, "No audio file provided")) ]
              /\ UNCHANGED files
         ELSE IF filename = ""
         THEN /\ req' = [ req EXCEPT ![r] =
                    Done(error_response(req[r], 400, "No file selected")) ]
              /\ UNCHANGED files
         ELSE LET filepath == upload_path(clock, filename)
              IN  /\ files' = Put(files, filepath, audio)
                  /\ req' = [ req EXCEPT ![r] =
                        [ pc |-> "saved",
                          file |-> audio,
                          user_data |-> [ name |-> r, age |-> "N/A", gender |-> "N/A" ],
                          filepath |-> filepath ] ]
    /\ UNCHANGED << shared, clock, health_resp, call, ret >>

\* line 261
analyze_extract(r) ==
    /\ req[r].pc = "saved"
    /\ LET e == extract_features(files[req[r].filepath])
       IN  req' = [ req EXCEPT ![r] =
                IF e.ok
                THEN [ pc |-> "extracted",
                       user_data |-> req[r].user_data,
                       features |-> e.features ]
                ELSE Done(error_response(req[r], 500, e.error)) ]
    /\ UNCHANGED << shared, clock, files, health_resp, call, ret >>

\* line 262
analyze_predict(r) ==
    /\ req[r].pc = "extracted"
    /\ LET p == predict_parkinsons(req[r].features)
       IN  req' = [ req EXCEPT ![r] =
                IF p.ok
                THEN [ pc |-> "predicted",
                       user_data |-> req[r].user_data,
                       features |-> p.features,
                       prediction_result |-> p.result ]
                ELSE Done(error_response(req[r], 500, p.error)) ]
    /\ UNCHANGED << shared, clock, files, health_resp, call, ret >>

\* lines 263-275: the report is written under the name of the current second,
\* unless FPDF raises (a name it cannot encode, a write that fails)
analyze_report(r) ==
    /\ req[r].pc = "predicted"
    /\ \E written \in BOOLEAN :
         IF written
         THEN LET pdf_path == report_path(clock)
              IN  /\ files' = Put(files, pdf_path,
                          report_content(req[r].user_data, req[r].prediction_result))
                  /\ req' = [ req EXCEPT ![r] =
                        Done(success_response(req[r].user_data, req[r].features,
                                              req[r].prediction_result, pdf_path)) ]
         ELSE /\ req' = [ req EXCEPT ![r] =
                    Done(error_response(req[r], 500, "pdf.output")) ]
              /\ UNCHANGED files
    /\ UNCHANGED << shared, clock, health_resp, call, ret >>

\* lines 280-286: the client of a successful analysis fetches its report
download_report(r) ==
    /\ req[r].pc = "done"
    /\ req[r].response.status = 200
    /\ req[r].response.body.pdf_filename \in DOMAIN files
    /\ req' = [ req EXCEPT ![r] =
          [ pc |-> "downloaded",
            report |-> files[req[r].response.body.pdf_filename] ] ]
    /\ UNCHANGED << shared, clock, files, health_resp, call, ret >>

\* lines 288-294 (the time of the answer is left out)
health ==
    /\ health_resp' = [ status |-> "healthy", model_loaded |-> (model # None) ]
    /\ UNCHANGED << shared, clock, files, req, call, ret >>

\* a second passes
Tick ==
    /\ clock < MaxClock
    /\ clock' = clock + 1
    /\ UNCHANGED << shared, files, req, health_resp, call, ret >>

Next ==
    \/ \E r \in Requests : analyze_begin(r)
    \/ \E r \in Requests : analyze_extract(r)
    \/ \E r \in Requests : analyze_predict(r)
    \/ \E r \in Requests : analyze_report(r)
    \/ \E r \in Requests : download_report(r)
    \/ health
    \/ Tick

Spec == Init /\ [][Next]_vars

----------------------------------------------------------------------------
(* Claims about validate_features, under SpecValidate *)

ValidateReturned == call.fn = "validate_features" /\ ret # None

\* the features the loop of validate_features looks at
Checked(features, stats) ==
    IF HasRanges(stats) THEN Keys(features) \cap Keys(stats["mins"]) ELSE {}

\* C1: for every feature present in the dict and in the statistics table, a value
\* below 0.5 * training_min comes back as exactly 0.5 * training_min and a value
\* above 1.5 * training_max as exactly 1.5 * training_max, for all values and all
\* training min/max.
C1_ClipsToNearestBound ==
    ValidateReturned =>
        \A f \in Checked(call.features, call.stats) :
            LET v  == call.features[f]
                lo == Half(call.stats["mins"][f])
                hi == OneAndAHalf(call.stats["maxs"][f])
            IN  /\ v < lo => ret.validated[f] = lo
                /\ v > hi => ret.validated[f] = hi

\* C10: a value inside the training range, training_min <= v <= training_max, comes
\* back unchanged, for training min/max of either sign, and the output has exactly
\* the keys of the input.
C10_InRangeUnchanged ==
    ValidateReturned =>
        /\ Keys(ret.validated) = Keys(call.features)
        /\ \A f \in Checked(call.features, call.stats) :
               (call.stats["mins"][f] <= call.features[f]
                    /\ call.features[f] <= call.stats["maxs"][f])
                   => ret.validated[f] = call.features[f]

----------------------------------------------------------------------------
(* Claims about extract_features, under SpecExtract *)

\* C7: for a non-empty silence-only input extract_features does not fail and
\* returns pitch_mean = 150, pitch_std = 40, jitter = 0.005 and shimmer = 0.02,
\* however many frames the signal has.
C7_SilenceDefaults ==
    (/\ call.fn = "extract_features"
     /\ ret # None
     /\ call.audio.decodable
     /\ call.audio.n > 0
     /\ Silent(call.audio))
        => /\ ret.ok
           /\ ret.features["pitch_mean"] = PitchMeanDefault
           /\ ret.features["pitch_std"] = PitchStdDefault
           /\ ret.features["jitter"] = JitterDefault
           /\ ret.features["shimmer"] = ShimmerDefault

----------------------------------------------------------------------------
(* Claims about predict_parkinsons, under SpecPredict *)

PredictReturned == call.fn = "predict_parkinsons" /\ ret # None

\* C3: in every result of predict_parkinsons the confidence is the probability the
\* model gives to the predicted class (not the larger of the two), it lies in
\* [0, 1], needs_review is true exactly when the confidence is below 0.6, and a low
\* confidence does not make the call fail.
C3_Confidence ==
    PredictReturned =>
        /\ ret.ok
        /\ ret.result.confidence =
               (IF ret.result.prediction = 0 THEN ret.result.probability_healthy
                                             ELSE ret.result.probability_parkinsons)
        /\ ret.result.prediction = model.predict
        /\ ret.result.probability_healthy = model.predict_proba[1]
        /\ ret.result.probability_parkinsons = model.predict_proba[2]
        /\ ret.result.confidence \in 0 .. 100
        /\ ret.result.needs_review <=> (ret.result.confidence < ReviewThreshold)
        /\ ret.result.needs_review \in BOOLEAN

\* a result whose predicted class is not the likelier one, flagged for review
C3_Witness ==
    /\ PredictReturned
    /\ ret.ok
    /\ ret.result.needs_review
    /\ ret.result.prediction = 1
    /\ ret.result.confidence < ret.result.probability_healthy
    /\ ret.result.confidence < ReviewThreshold

\* column i comes before column j in the ranking
RanksBefore(imp, i, j) == imp[i] > imp[j] \/ (imp[i] = imp[j] /\ i < j)

ColumnIndex(name) == CHOOSE i \in DOMAIN feature_columns : feature_columns[i] = name

\* C5: top_features has exactly 5 entries, ordered by importance descending, equal
\* importances in feature-column order, they are the 5 highest-ranked columns, and
\* each entry pairs the name with its importance and the validated value.
C5_TopFeatures ==
    (PredictReturned /\ ret.ok) =>
        LET top == ret.result.top_features
            imp == model.feature_importances_
            val == validate_features(call.features, feature_stats).validated
            idx == [ k \in DOMAIN top |-> ColumnIndex(top[k].name) ]
        IN  /\ Len(top) = 5
            /\ \A k \in DOMAIN top :
                   /\ top[k].name \in Range(feature_columns)
                   /\ top[k].importance = imp[idx[k]]
                   /\ top[k].value = val[top[k].name]
            /\ \A k \in 1 .. (Len(top) - 1) : RanksBefore(imp, idx[k], idx[k + 1])
            /\ \A i \in DOMAIN feature_columns :
                   i \notin Range(idx) => RanksBefore(imp, idx[Len(top)], i)

\* a ranking with a tie inside the top five, a tie across its end, and a clipped value
C5_Witness ==
    /\ PredictReturned
    /\ ret.ok
    /\ LET top == ret.result.top_features
       IN  /\ \E k \in 1 .. 4 : top[k].importance = top[k + 1].importance
           /\ \E k \in 1 .. 4 : top[k].importance > top[k + 1].importance
           /\ \E i \in DOMAIN feature_columns :
                  /\ model.feature_importances_[i] = top[5].importance
                  /\ \A k \in DOMAIN top : top[k].name # feature_columns[i]
           /\ \E k \in DOMAIN top : top[k].value # call.features[top[k].name]

----------------------------------------------------------------------------
(* Claims about the server, under Spec *)

Finished(r) == req[r].pc = "done"

Succeeded(r) == Finished(r) /\ req[r].response.status = 200

ErrorOnly(response) ==
    /\ response.status \in { 400, 500 }
    /\ Keys(response.body) = { "error" }

ResultFields ==
    { "prediction", "confidence", "probability_healthy", "probability_parkinsons",
      "features", "top_features" }

\* C2: while no model or no scaler is loaded, every analysis request is rejected
\* before any per-request work is done: no upload is saved, no request gets as far
\* as saving or extracting, none ends with a result; and /health is answered.
C2_RejectedBeforeWork ==
    (model = None \/ scaler = None) =>
        /\ \A r \in Requests :
               /\ req[r].pc \in { "idle", "done" }
               /\ Finished(r) => ErrorOnly(req[r].response)
        /\ DOMAIN files = {}
        /\ ENABLED health

\* C4: every successful response holds the prediction (0/1), the confidence, both
\* class probabilities, the 10 raw feature values, the top-5 features and the
\* needs-review flag.
C4_ResponseComplete ==
    \A r \in Requests :
        Succeeded(r) =>
            LET body == req[r].response.body
            IN  /\ ResultFields \subseteq Keys(body)
                /\ body.prediction \in Classes
                /\ Keys(body.features) = FeatureNames
                /\ Len(body.top_features) = TopN
                /\ "needs_review" \in Keys(body)

\* the step of request r fails: no model at the start, an upload that is empty or
\* cannot be decoded, no model or scaler or a missing column at the prediction
StageFails(r) ==
    \/ req[r].pc = "idle" /\ model = None
    \/ /\ req[r].pc = "saved"
       /\ (~files[req[r].filepath].decodable \/ files[req[r].filepath].n = 0)
    \/ /\ req[r].pc = "extracted"
       /\ \/ model = None
          \/ scaler = None
          \/ \E i \in DOMAIN feature_columns :
                 feature_columns[i] \notin Keys(req[r].features)

CompleteResult(response) ==
    /\ response.status = 200
    /\ Keys(response.body) =
           ResultFields \cup { "success", "pdf_filename", "user_data" }

\* C6: a step of a request that fails ends the request with an error response that
\* carries nothing but the error, and every request that ends, ends with a complete
\* result or with an error only.
C6_ErrorsOnly ==
    [][ \A r \in Requests :
          req'[r] # req[r] =>
              /\ StageFails(r) =>
                     (req'[r].pc = "done" /\ ErrorOnly(req'[r].response))
              /\ req'[r].pc = "done" =>
                     (ErrorOnly(req'[r].response) \/ CompleteResult(req'[r].response))
      ]_vars

\* one request failed on its empty upload, another after its prediction
C6_Witness ==
    \E r1 \in Requests, r2 \in Requests :
        /\ Finished(r1) /\ ~Succeeded(r1)
        /\ req[r1].response.body.error = "Audio file is empty"
        /\ Finished(r2) /\ ~Succeeded(r2)
        /\ req[r2].response.body.error = "pdf.output"

\* the result in a response is the one the loaded artifact gives for the features
\* in that response
OutcomeFromArtifact(response) ==
    LET body == response.body
        p    == predict_parkinsons(body.features)
    IN  /\ p.ok
        /\ body.prediction = p.result.prediction
        /\ body.confidence = p.result.confidence
        /\ body.top_features = p.result.top_features

C9_OwnFiles ==
    \A r \in Requests :
        /\ req[r].pc = "saved" => files[req[r].filepath] = req[r].file
        /\ Succeeded(r) =>
               files[req[r].response.body.pdf_filename].name
                   = req[r].response.body.user_data.name
        /\ req[r].pc = "downloaded" => req[r].report.name = r

====
